---- MODULE Spec2Model ----
(***************************************************************************)
(* The resume scanner.  From src/components/ResultsStep.tsx: calculateScore,*)
(* calculateOptimizedScore and the regular expressions the latter builds    *)
(* from skill names, getScoreColor and highlightKeywords.  From src/App.tsx:*)
(* the scan of App, with its intervals, its call of optimizeResume and its  *)
(* completion timeout.  Numbers are IEEE-754 doubles, as in the source      *)
(* language: a double is a 53-bit mantissa m (four 14-bit digits, least     *)
(* significant first) and an exponent e, with value m * 2^e.                *)
(***************************************************************************)
EXTENDS Integers, Sequences, FiniteSets, TLC

VARIABLES
    report,          \* analysisResult.report, the object the caller holds
    optimizedResume, \* analysisResult.optimizedResume, a sequence of characters
    originalScore,   \* outcome of the last calculateScore(report)
    optimizedScore,  \* outcome of the last calculateOptimizedScore(report, optimizedResume)
    optimizedReport, \* the local optimizedReport at the end of that call, "null" before it
    score,           \* the score prop of CircularProgressBar
    color,           \* getScoreColor(score), "none" before the call
    highlighted,     \* outcome of the last highlightKeywords(optimizedResume)
    \* the state of App (src/App.tsx)
    isModalOpen,
    analysisResult,      \* 0 for null, or the scan whose result it is
    originalResume,
    isLoading,
    loadingText,
    progress,            \* in units of 1/steps percent
    error,               \* <<>> for null, or the pieces of the message
    progressIntervalRef, \* 0 for null, or the scan that set the interval
    textIntervalRef,
    progressIntervals,   \* the scans whose progress interval is set and not cleared
    textIntervals,       \* the same for the text interval, with the messageIndex of its callback
    calls,               \* the optimizeResume call of each scan
    timeouts,            \* the scans whose 500 ms timeout is set and has not fired
    scans,               \* the number of calls of handleScan that went past its guard
    succeededSinceReset  \* history: the calls that resolved since analysisResult was last reset

scoreVars == <<report, optimizedResume, originalScore, optimizedScore, optimizedReport>>
colorVars == <<score, color>>
appState == <<isModalOpen, analysisResult, originalResume, isLoading, loadingText, progress, error>>
appVars == <<appState, progressIntervalRef, textIntervalRef, progressIntervals, textIntervals,
             calls, timeouts, scans, succeededSinceReset>>
vars == <<scoreVars, colorVars, highlighted, appVars>>

-----------------------------------------------------------------------------
(* Bounds of the model *)

MaxItems == 5      \* tips and skills of a report, all four sections together (Spec)
MaxNameLen == 2    \* characters of a skill name (SpecOpt)
MaxTextLen == 3    \* characters of an optimized resume (SpecOpt)
MaxScans == 2      \* calls of handleScan that start a scan (SpecApp)

-----------------------------------------------------------------------------
(* IEEE-754 double arithmetic, round to nearest, ties to even *)

LimbBits == 14
MantBits == 53
Limb == 2 ^ LimbBits

Digit(a, i) == IF i >= 1 /\ i <= Len(a) THEN a[i] ELSE 0

\* carry propagation over eight raw digits
Carry8(c) ==
    LET t1 == c[1]
        t2 == c[2] + (t1 \div Limb)
        t3 == c[3] + (t2 \div Limb)
        t4 == c[4] + (t3 \div Limb)
        t5 == c[5] + (t4 \div Limb)
        t6 == c[6] + (t5 \div Limb)
        t7 == c[7] + (t6 \div Limb)
        t8 == c[8] + (t7 \div Limb)
    IN  <<t1 % Limb, t2 % Limb, t3 % Limb, t4 % Limb, t5 % Limb, t6 % Limb, t7 % Limb, t8>>

RECURSIVE IntBitLen(_)
IntBitLen(n) == IF n = 0 THEN 0 ELSE 1 + IntBitLen(n \div 2)

RECURSIVE TopDigit(_, _)
TopDigit(a, i) == IF i = 0 THEN 0 ELSE IF a[i] # 0 THEN i ELSE TopDigit(a, i - 1)

BitLen(a) == LET top == TopDigit(a, Len(a))
             IN  IF top = 0 THEN 0 ELSE LimbBits * (top - 1) + IntBitLen(a[top])

\* bit n (counted from 0) of a
Bit(a, n) == (Digit(a, (n \div LimbBits) + 1) \div (2 ^ (n % LimbBits))) % 2

\* some bit of a below bit n is set
AnyBelow(a, n) == \/ Digit(a, (n \div LimbBits) + 1) % (2 ^ (n % LimbBits)) # 0
                  \/ \E i \in 1..(n \div LimbBits) : Digit(a, i) # 0

\* the low four digits of a shifted right by s bits
ShiftRight(a, s) ==
    LET q == s \div LimbBits
        r == s % LimbBits
    IN  [j \in 1..4 |-> (Digit(a, j + q) \div (2 ^ r))
                        + ((Digit(a, j + q + 1) % (2 ^ r)) * (2 ^ (LimbBits - r)))]

\* a shifted left by s bits, as eight digits
ShiftLeft(a, s) ==
    LET q == s \div LimbBits
        r == s % LimbBits
    IN  [k \in 1..8 |-> ((Digit(a, k - q) * (2 ^ r)) % Limb)
                        + ((Digit(a, k - q - 1) * (2 ^ r)) \div Limb)]

ZeroDouble == [m |-> <<0, 0, 0, 0>>, e |-> 0]
IsZero(x) == x.m = <<0, 0, 0, 0>>

\* a mantissa of MantBits + 1 bits (2^MantBits, after rounding up) is halved
Renormalize(r, e) ==
    IF r[4] = 2 ^ (MantBits - 3 * LimbBits)
    THEN [m |-> <<0, 0, 0, r[4] \div 2>>, e |-> e + 1]
    ELSE [m |-> <<r[1], r[2], r[3], r[4]>>, e |-> e]

\* q * 2^e, with q raised by one when the dropped bits round up (more than a
\* half, or a half and q odd)
RoundQuotient(q, half, sticky, e) ==
    IF half /\ (sticky \/ q[1] % 2 = 1)
    THEN Renormalize(Carry8(<<q[1] + 1, q[2], q[3], q[4], 0, 0, 0, 0>>), e)
    ELSE Renormalize(q, e)

\* a * 2^e for a of s + MantBits bits
RoundBits(a, e, s) ==
    IF s + MantBits = 0 THEN ZeroDouble
    ELSE IF s <= 0
    THEN [m |-> SubSeq(ShiftLeft(SubSeq(a, 1, 4), 0 - s), 1, 4), e |-> e + s]
    ELSE RoundQuotient(ShiftRight(a, s), Bit(a, s - 1) = 1, AnyBelow(a, s - 1), e + s)

\* the double nearest to a * 2^e (a in eight digits), ties to even; the
\* mantissa of a non-zero result has exactly MantBits bits
RoundToDouble(a, e) == RoundBits(a, e, BitLen(a) - MantBits)

\* x * y
FMul(x, y) ==
    LET a == x.m
        b == y.m
    IN  RoundToDouble(Carry8(<<a[1] * b[1],
                               a[1] * b[2] + a[2] * b[1],
                               a[1] * b[3] + a[2] * b[2] + a[3] * b[1],
                               a[1] * b[4] + a[2] * b[3] + a[3] * b[2] + a[4] * b[1],
                               a[2] * b[4] + a[3] * b[3] + a[4] * b[2],
                               a[3] * b[4] + a[4] * b[3],
                               a[4] * b[4],
                               0>>), x.e + y.e)

\* x + y for non-zero x and y with x.e >= y.e
FAddOrdered(x, y) ==
    LET d == x.e - y.e
        xs == ShiftLeft(x.m, d)
    IN  IF d > MantBits + 1 THEN x
        ELSE RoundToDouble(Carry8([k \in 1..8 |-> xs[k] + Digit(y.m, k)]), y.e)

\* x + y
FAdd(x, y) == IF IsZero(x) THEN y
              ELSE IF IsZero(y) THEN x
              ELSE IF x.e >= y.e THEN FAddOrdered(x, y) ELSE FAddOrdered(y, x)

\* p / t for integers 0 <= p < Limb and 0 < t < Limb: long division to seven
\* digits below the integer part, and a digit that records a remainder
FDiv(p, t) ==
    LET r0 == p % t
        r1 == (r0 * Limb) % t
        r2 == (r1 * Limb) % t
        r3 == (r2 * Limb) % t
        r4 == (r3 * Limb) % t
        r5 == (r4 * Limb) % t
        r6 == (r5 * Limb) % t
    IN  RoundToDouble(<<IF r6 = 0 THEN 0 ELSE 1, (r5 * Limb) \div t, (r4 * Limb) \div t,
                        (r3 * Limb) \div t, (r2 * Limb) \div t, (r1 * Limb) \div t,
                        (r0 * Limb) \div t, p \div t>>, 0 - 7 * LimbBits)

\* the double of an integer 0 <= n < Limb
FromInt(n) == FDiv(n, 1)

\* the double of the decimal literal h/100 (0.30 is the double nearest to 30/100)
Hundredths(h) == FDiv(h, 100)

\* a mutation of MathRound: Math.floor
MathFloor(x) ==
    IF IsZero(x) \/ 0 - x.e > MantBits + 1 THEN 0
    ELSE ShiftRight(x.m, 0 - x.e)[1] + Limb * ShiftRight(x.m, 0 - x.e)[2]

\* Math.round(x) for 0 <= x < 2^28: floor(x + 1/2), computed exactly (a non-zero
\* x in that range has x.e < 0)
MathRound(x) ==
    LET k == 0 - x.e
        ip == ShiftRight(x.m, k)
    IN  IF IsZero(x) \/ k > MantBits + 1 THEN 0
        ELSE ip[1] + Limb * ip[2] + Bit(x.m, k - 1)

-----------------------------------------------------------------------------
(* The report (src/types.ts) and calculateScore *)

\* WEIGHTS as written, in hundredths
WeightHundredths == [searchability |-> 30, hardSkills |-> 45, softSkills |-> 10, recruiterTips |-> 15]

\* WEIGHTS[section], a double
WEIGHTS(section) == Hundredths(WeightHundredths[section])

SearchabilityStatus == {"pass", "fail", "info"}
RecruiterStatus == {"pass", "warning", "info"}

\* a mutation of PassedTips: 'info' earns no credit
PassedTipsPassOnly(tips) == Cardinality({i \in DOMAIN tips : tips[i].status = "pass"})

\* a mutation of PassedTips: every status but 'fail' earns credit
PassedTipsNotFail(tips) == Cardinality({i \in DOMAIN tips : tips[i].status # "fail"})

\* tips.filter(t => t.status === 'pass' || t.status === 'info').length
PassedTips(tips) == Cardinality({i \in DOMAIN tips : tips[i].status = "pass" \/ tips[i].status = "info"})

\* skills.filter(s => s.resumeCount !== -1).length
FoundSkills(skills) == Cardinality({i \in DOMAIN skills : skills[i].resumeCount # -1})

\* a mutation of SectionScore: the count is not divided by the total
SectionScoreNoDivision(passed, total) == IF total > 0 THEN FromInt(passed) ELSE FromInt(1)

\* a mutation of SectionScore: an empty section earns nothing
SectionScoreEmptyZero(passed, total) == IF total > 0 THEN FDiv(passed, total) ELSE ZeroDouble

\* total > 0 ? (passed / total) : 1
SectionScore(passed, total) == IF total > 0 THEN FDiv(passed, total) ELSE FromInt(1)

calculateScore(r) ==
    LET searchabilityScore == SectionScore(PassedTips(r.searchability.tips), Len(r.searchability.tips))
        hardSkillsScore    == SectionScore(FoundSkills(r.hardSkills.skills), Len(r.hardSkills.skills))
        softSkillsScore    == SectionScore(FoundSkills(r.softSkills.skills), Len(r.softSkills.skills))
        recruiterTipsScore == SectionScore(PassedTips(r.recruiterTips.tips), Len(r.recruiterTips.tips))
        finalScore == FAdd(FAdd(FAdd(FMul(searchabilityScore, WEIGHTS("searchability")),
                                     FMul(hardSkillsScore, WEIGHTS("hardSkills"))),
                                FMul(softSkillsScore, WEIGHTS("softSkills"))),
                           FMul(recruiterTipsScore, WEIGHTS("recruiterTips")))
    IN  MathRound(FMul(finalScore, FromInt(100)))

-----------------------------------------------------------------------------
(* Strings are sequences of one-character strings.  The characters of the   *)
(* model: the letters A, a, B, b, the pattern characters + and . , the      *)
(* space, and the backslash that escaping adds.                             *)

\* String.prototype.toLowerCase, one character
LowerChar(c) == CASE c = "A" -> "a" [] c = "B" -> "b" [] OTHER -> c

\* the regular expression engine's Canonicalize under the i flag (toUpperCase)
Canonicalize(c) == CASE c = "a" -> "A" [] c = "b" -> "B" [] OTHER -> c

toLowerCase(s) == [i \in DOMAIN s |-> LowerChar(s[i])]

\* \w of the regular expression engine, within the characters of the model
WordChars == {"A", "a", "B", "b"}

\* the characters of the class [.*+?^${}()|[\]\\]
RegExpSpecials == {".", "*", "+", "?", "^", "$", "{", "}", "(", ")", "|", "[", "]", "\\"}

\* a mutation of escapeRegExp: the name goes into the pattern as it is
escapeNothing(s) == s

\* skill.replace(/[.*+?^${}()|[\]\\]/g, '\\$&')
RECURSIVE escapeRegExp(_)
escapeRegExp(s) ==
    IF s = <<>> THEN <<>>
    ELSE (IF Head(s) \in RegExpSpecials THEN <<"\\", Head(s)>> ELSE <<Head(s)>>)
         \o escapeRegExp(Tail(s))

\* a mutation of SkillPattern: no word boundaries around the name
SkillPatternNoBoundary(name) == escapeRegExp(name)

\* `\\b${...}\\b`
SkillPattern(name) == <<"\\", "b">> \o escapeRegExp(name) \o <<"\\", "b">>

\* new RegExp(pattern): the terms of the pattern, or a SyntaxError.  Of the
\* syntax characters the parser knows the ones of the model: \ . and +
SyntaxError == [ok |-> FALSE, terms |-> <<>>]

RECURSIVE ParseTerms(_, _)
ParseAtom(p, atom, next) ==
    LET plus == next <= Len(p) /\ p[next] = "+"
        rest == ParseTerms(p, IF plus THEN next + 1 ELSE next)
    IN  IF rest.ok THEN [ok |-> TRUE, terms |-> <<[atom EXCEPT !.plus = plus]>> \o rest.terms]
        ELSE SyntaxError

ParseTerms(p, i) ==
    IF i > Len(p) THEN [ok |-> TRUE, terms |-> <<>>]
    ELSE IF p[i] = "\\"
    THEN IF i = Len(p) THEN SyntaxError                   \* \ at end of pattern
         ELSE IF p[i + 1] = "b"
         THEN LET rest == ParseTerms(p, i + 2)             \* an assertion takes no quantifier
              IN  IF rest.ok
                  THEN [ok |-> TRUE, terms |-> <<[kind |-> "wordb", ch |-> "", plus |-> FALSE]>> \o rest.terms]
                  ELSE SyntaxError
         ELSE ParseAtom(p, [kind |-> "char", ch |-> p[i + 1], plus |-> FALSE], i + 2)
    ELSE IF p[i] = "+" THEN SyntaxError                    \* nothing to repeat
    ELSE IF p[i] = "." THEN ParseAtom(p, [kind |-> "any", ch |-> "", plus |-> FALSE], i + 1)
    ELSE ParseAtom(p, [kind |-> "char", ch |-> p[i], plus |-> FALSE], i + 1)

\* new RegExp(pattern, 'i')
RegExpI(pattern) == LET parsed == ParseTerms(pattern, 1)
                    IN  [ok |-> parsed.ok, terms |-> parsed.terms, ignoreCase |-> TRUE]

IsWordCharAt(text, i) == i >= 1 /\ i <= Len(text) /\ text[i] \in WordChars

\* \b between the characters e and e + 1 of text
AtWordBoundary(text, e) == IsWordCharAt(text, e) # IsWordCharAt(text, e + 1)

CharMatches(re, term, c) ==
    \/ term.kind = "any"
    \/ term.kind = "char" /\ IF re.ignoreCase THEN Canonicalize(term.ch) = Canonicalize(c)
                             ELSE term.ch = c

\* the terms from the k-th on match text from the end position e on
RECURSIVE MatchFrom(_, _, _, _)
MatchFrom(re, k, text, e) ==
    IF k > Len(re.terms) THEN TRUE
    ELSE LET term == re.terms[k]
         IN  IF term.kind = "wordb"
             THEN AtWordBoundary(text, e) /\ MatchFrom(re, k + 1, text, e)
             ELSE IF term.plus
             THEN \E n \in 1..(Len(text) - e) :
                      /\ \A j \in 1..n : CharMatches(re, term, text[e + j])
                      /\ MatchFrom(re, k + 1, text, e + n)
             ELSE /\ e < Len(text)
                  /\ CharMatches(re, term, text[e + 1])
                  /\ MatchFrom(re, k + 1, text, e + 1)

\* regex.test(text), for a regular expression without the g flag
RegExpTest(re, text) == \E e \in 0..Len(text) : MatchFrom(re, 1, text, e)

-----------------------------------------------------------------------------
(* calculateOptimizedScore.  The objects it touches live in a store: the    *)
(* caller's report under "report", the deep copy under "optimizedReport".   *)

CloneTip(t) == [name |-> t.name, status |-> t.status, message |-> t.message]
CloneSkill(k) == [skill |-> k.skill, resumeCount |-> k.resumeCount, jdCount |-> k.jdCount]

\* JSON.parse(JSON.stringify(report)), a report of strings and integers
JSONRoundTrip(r) ==
    [searchability |-> [issues |-> r.searchability.issues,
                        tips |-> [i \in DOMAIN r.searchability.tips |-> CloneTip(r.searchability.tips[i])]],
     hardSkills    |-> [issues |-> r.hardSkills.issues,
                        skills |-> [i \in DOMAIN r.hardSkills.skills |-> CloneSkill(r.hardSkills.skills[i])]],
     softSkills    |-> [issues |-> r.softSkills.issues,
                        skills |-> [i \in DOMAIN r.softSkills.skills |-> CloneSkill(r.softSkills.skills[i])]],
     recruiterTips |-> [issues |-> r.recruiterTips.issues,
                        tips |-> [i \in DOMAIN r.recruiterTips.tips |-> CloneTip(r.recruiterTips.tips[i])]]]

\* a mutation of optimizedReportRef: no copy, the working object is the caller's
optimizedReportAlias == "report"

\* the object the name optimizedReport refers to
optimizedReportRef == "optimizedReport"

\* if (skillRegex.test(optimizedResumeLower)) skill.resumeCount = 1
MarkIfFound(skill, skillRegex, textLower) ==
    IF ~skillRegex.ok THEN [threw |-> TRUE, skill |-> skill]
    ELSE IF RegExpTest(skillRegex, textLower)
    THEN [threw |-> FALSE, skill |-> [skill EXCEPT !.resumeCount = 1]]
    ELSE [threw |-> FALSE, skill |-> skill]

\* a mutation of MarkSkill: every skill is counted anew from the text, 1 if it
\* is found and -1 if it is not
Recount(skill, skillRegex, textLower) ==
    IF ~skillRegex.ok THEN [threw |-> TRUE, skill |-> skill]
    ELSE [threw |-> FALSE,
          skill |-> [skill EXCEPT !.resumeCount = IF RegExpTest(skillRegex, textLower) THEN 1 ELSE -1]]

MarkSkillRecounted(skill, textLower) ==
    Recount(skill, RegExpI(SkillPattern(skill.skill)), textLower)

\* the body of one forEach callback of lines 57-73, on one skill
MarkSkill(skill, textLower) ==
    IF skill.resumeCount = -1
    THEN MarkIfFound(skill, RegExpI(SkillPattern(skill.skill)), textLower)
    ELSE [threw |-> FALSE, skill |-> skill]

\* the callbacks run in order, up to the first one that throws
MarkUpToThrow(skills, marked) ==
    [threw  |-> \E i \in DOMAIN skills : marked[i].threw,
     skills |-> [i \in DOMAIN skills |->
                    IF \E j \in 1..i : marked[j].threw THEN skills[i] ELSE marked[i].skill]]

\* skills.forEach(...)
MarkSkills(skills, textLower) ==
    MarkUpToThrow(skills, [i \in DOMAIN skills |-> MarkSkill(skills[i], textLower)])

\* a mutation of PassAll: the tips keep their statuses
PassNone(tips) == tips

\* tips.forEach(tip => tip.status = 'pass')
PassAll(tips) == [i \in DOMAIN tips |-> [tips[i] EXCEPT !.status = "pass"]]

\* The outcome of a call: whether it threw, the value returned, the caller's
\* report after the call and the working copy at the end of the call.
Threw(store, ref) ==
    [threw |-> TRUE, value |-> 0, report |-> store.report, optimizedReport |-> store[ref]]

Returned(store, ref) ==
    [threw |-> FALSE, value |-> calculateScore(store[ref]),
     report |-> store.report, optimizedReport |-> store[ref]]

\* lines 77-81: the tips of the working copy pass, and its score is returned
PassTipsAndScore(store, ref) ==
    Returned([store EXCEPT ![ref].searchability.tips = PassAll(store[ref].searchability.tips),
                           ![ref].recruiterTips.tips = PassAll(store[ref].recruiterTips.tips)], ref)

\* lines 66-73, soft being the outcome of the callbacks on the soft skills
AfterSoftSkills(store, ref, soft) ==
    IF soft.threw THEN Threw([store EXCEPT ![ref].softSkills.skills = soft.skills], ref)
    ELSE PassTipsAndScore([store EXCEPT ![ref].softSkills.skills = soft.skills], ref)

MarkSoftSkills(store, ref, textLower) ==
    AfterSoftSkills(store, ref, MarkSkills(store[ref].softSkills.skills, textLower))

\* lines 57-64, hard being the outcome of the callbacks on the hard skills
AfterHardSkills(store, ref, textLower, hard) ==
    IF hard.threw THEN Threw([store EXCEPT ![ref].hardSkills.skills = hard.skills], ref)
    ELSE MarkSoftSkills([store EXCEPT ![ref].hardSkills.skills = hard.skills], ref, textLower)

MarkHardSkills(store, ref, textLower) ==
    AfterHardSkills(store, ref, textLower, MarkSkills(store[ref].hardSkills.skills, textLower))

calculateOptimizedScore(r, optimizedResumeText) ==
    MarkHardSkills([report |-> r, optimizedReport |-> JSONRoundTrip(r)],
                   optimizedReportRef, toLowerCase(optimizedResumeText))

-----------------------------------------------------------------------------
(* The inputs *)

SeqsUpTo(S, n) == UNION {[1..k -> S] : k \in 0..n}

\* a name of i letters: A, AA, AAA, ...
NameOfLen(i) == [j \in 1..i |-> "A"]

\* total tips of which the first passed earn credit ('pass' and 'info' in
\* turn) and the others have the status bad
TipList(passed, total, bad) ==
    [i \in 1..total |-> [name    |-> "tip",
                         status  |-> IF i > passed THEN bad ELSE IF i % 2 = 1 THEN "pass" ELSE "info",
                         message |-> ""]]

\* total skills named A, AA, ..., of which the first found are in the resume
\* (resumeCount 0, 1, ...) and the others are missing (-1)
SkillList(found, total) ==
    [i \in 1..total |-> [skill       |-> NameOfLen(i),
                         resumeCount |-> IF i > found THEN -1 ELSE i - 1,
                         jdCount     |-> i]]

TipSection(passed, total, bad) == [issues |-> total - passed, tips |-> TipList(passed, total, bad)]
SkillSection(found, total) == [issues |-> total - found, skills |-> SkillList(found, total)]

\* the optimized resumes of Spec: empty, and one that holds the word "a"
ScoreTexts == {<<>>, <<"a">>}

NameChars == {"A", "+", "."}
TextChars == {"A", "a", "+", " "}
SkillNames == SeqsUpTo(NameChars, MaxNameLen) \ {<<>>}
Texts == SeqsUpTo(TextChars, MaxTextLen)

Missing(name) == [skill |-> name, resumeCount |-> -1, jdCount |-> 3]
Present(name) == [skill |-> name, resumeCount |-> 2, jdCount |-> 1]

NotCalled == [status |-> "none", value |-> 0]

TypeOK == /\ originalScore.status \in {"none", "returned"}
          /\ optimizedScore.status \in {"none", "returned", "threw"}

\* App as useState and useRef initialise it (App.tsx:10-19), before any call
NoApp ==
    /\ isModalOpen = FALSE
    /\ analysisResult = 0
    /\ originalResume = <<>>
    /\ isLoading = FALSE
    /\ loadingText = ""
    /\ progress = 0
    /\ error = <<>>
    /\ progressIntervalRef = 0
    /\ textIntervalRef = 0
    /\ progressIntervals = {}
    /\ textIntervals = <<>>
    /\ calls = [n \in 1..MaxScans |-> "none"]
    /\ timeouts = {}
    /\ scans = 0
    /\ succeededSinceReset = {}

\* no CircularProgressBar is rendered
NoColor == score = 0 /\ color = "none"

\* highlightKeywords has not been called
NotHighlighted == [status |-> "none", segments |-> <<>>]

\* no report is scored
NoScores ==
    /\ report = "null"
    /\ optimizedResume = <<>>
    /\ originalScore = NotCalled
    /\ optimizedScore = NotCalled
    /\ optimizedReport = "null"

\* reports of every profile of section sizes and credited entries, up to
\* MaxItems entries in all
Init ==
    \E ts \in 0..MaxItems : \E th \in 0..(MaxItems - ts) :
    \E tf \in 0..(MaxItems - ts - th) : \E tr \in 0..(MaxItems - ts - th - tf) :
    \E ps \in 0..ts : \E ph \in 0..th : \E pf \in 0..tf : \E pr \in 0..tr :
        /\ report = [searchability |-> TipSection(ps, ts, "fail"),
                     hardSkills    |-> SkillSection(ph, th),
                     softSkills    |-> SkillSection(pf, tf),
                     recruiterTips |-> TipSection(pr, tr, "warning")]
        /\ optimizedResume \in ScoreTexts
        /\ originalScore = NotCalled
        /\ optimizedScore = NotCalled
        /\ optimizedReport = "null"
        /\ NoColor
        /\ highlighted = NotHighlighted
        /\ NoApp

\* one missing skill, in the hard skills next to a present one with the other
\* sections empty, or in the soft skills of a report with failing tips
InitOpt ==
    \E name \in SkillNames : \E inHard \in BOOLEAN :
        /\ report = IF inHard
                    THEN [searchability |-> TipSection(0, 0, "fail"),
                          hardSkills    |-> [issues |-> 1, skills |-> <<Missing(name), Present(<<"B">>)>>],
                          softSkills    |-> SkillSection(0, 0),
                          recruiterTips |-> TipSection(0, 0, "warning")]
                    ELSE [searchability |-> TipSection(0, 1, "fail"),
                          hardSkills    |-> [issues |-> 0, skills |-> <<Present(<<"B">>)>>],
                          softSkills    |-> [issues |-> 1, skills |-> <<Missing(name)>>],
                          recruiterTips |-> TipSection(1, 2, "warning")]
        /\ optimizedResume \in Texts
        /\ originalScore = NotCalled
        /\ optimizedScore = NotCalled
        /\ optimizedReport = "null"
        /\ NoColor
        /\ highlighted = NotHighlighted
        /\ NoApp

-----------------------------------------------------------------------------
(* The calls of ResultsStep (lines 164-172) *)

\* originalScore = calculateScore(analysisResult.report)
CalculateScoreStep ==
    /\ originalScore' = [status |-> "returned", value |-> calculateScore(report)]
    /\ UNCHANGED <<report, optimizedResume, optimizedScore, optimizedReport>>
    /\ UNCHANGED <<colorVars, highlighted, appVars>>

\* optimizedScore = calculateOptimizedScore(analysisResult.report, analysisResult.optimizedResume)
OptimizedScoreOutcome(out) ==
    /\ report' = out.report
    /\ optimizedReport' = out.optimizedReport
    /\ optimizedScore' = [status |-> IF out.threw THEN "threw" ELSE "returned", value |-> out.value]
    /\ UNCHANGED <<optimizedResume, originalScore>>
    /\ UNCHANGED <<colorVars, highlighted, appVars>>

CalculateOptimizedScoreStep == OptimizedScoreOutcome(calculateOptimizedScore(report, optimizedResume))

Next == CalculateScoreStep \/ CalculateOptimizedScoreStep

Spec == Init /\ [][Next]_vars

NextOpt == CalculateOptimizedScoreStep

SpecOpt == InitOpt /\ [][NextOpt]_vars

-----------------------------------------------------------------------------
(* getScoreColor (lines 86-90) *)

\* a mutation of getScoreColor: the thresholds are exclusive
getScoreColorExclusive(s) ==
    IF s > 90 THEN "green" ELSE IF s > 75 THEN "yellow" ELSE "red"

getScoreColor(s) ==
    IF s >= 90 THEN "green" ELSE IF s >= 75 THEN "yellow" ELSE "red"

\* the scores a progress bar is given: whole percentages
Scores == 0..100

InitColor == /\ score \in Scores
             /\ color = "none"
             /\ NoScores
             /\ highlighted = NotHighlighted
             /\ NoApp

\* const color = getScoreColor(score)  (line 98)
GetScoreColorStep ==
    /\ color' = getScoreColor(score)
    /\ UNCHANGED <<score, scoreVars, highlighted, appVars>>

NextColor == GetScoreColorStep

SpecColor == InitColor /\ [][NextColor]_vars

-----------------------------------------------------------------------------
(* highlightKeywords (lines 191-202).  The pattern is `\b(k1|k2|...)\b`     *)
(* with the flags g and i; the names of the model hold neither | nor a      *)
(* parenthesis, so the alternatives of the pattern are the escaped names,   *)
(* and the pattern matches as its alternatives, each between the two \b,    *)
(* tried in the order of the list.                                          *)

SkillNamesOf(skills) == [i \in DOMAIN skills |-> skills[i].skill]

\* [...report.hardSkills.skills.map(s => s.skill), ...report.softSkills.skills.map(s => s.skill)]
Keywords(r) == SkillNamesOf(r.hardSkills.skills) \o SkillNamesOf(r.softSkills.skills)

\* a mutation of KeywordAlternative: no word boundaries around the group
KeywordAlternativeNoBoundary(kw) == escapeRegExp(kw)

\* one alternative of the group, with the \b before and after the group
KeywordAlternative(kw) == <<"\\", "b">> \o escapeRegExp(kw) \o <<"\\", "b">>

ParsedAlternatives(parsed) ==
    [ok |-> \A i \in DOMAIN parsed : parsed[i].ok,
     alts |-> [i \in DOMAIN parsed |-> parsed[i].terms],
     ignoreCase |-> TRUE]

\* new RegExp(`\\b(${keywords.map(...).join('|')})\\b`, 'gi')
KeywordRegExp(keywords) ==
    ParsedAlternatives([i \in DOMAIN keywords |-> ParseTerms(KeywordAlternative(keywords[i]), 1)])

\* the number of characters after position e that the term matches in a row
RECURSIVE MaxRun(_, _, _, _)
MaxRun(re, term, text, e) ==
    IF e < Len(text) /\ CharMatches(re, term, text[e + 1])
    THEN 1 + MaxRun(re, term, text, e + 1) ELSE 0

\* the end of the match of the terms from the k-th on at position e, the
\* first one in the backtracking order of the engine, or -1
RECURSIVE MatchEnd(_, _, _, _, _)
RECURSIVE GreedyEnd(_, _, _, _, _, _)
OrFewer(r, re, terms, k, text, e, n) ==
    IF r # -1 THEN r ELSE GreedyEnd(re, terms, k, text, e, n - 1)

GreedyEnd(re, terms, k, text, e, n) ==
    IF n < 1 THEN -1
    ELSE OrFewer(MatchEnd(re, terms, k + 1, text, e + n), re, terms, k, text, e, n)

MatchEnd(re, terms, k, text, e) ==
    IF k > Len(terms) THEN e
    ELSE IF terms[k].kind = "wordb"
    THEN IF AtWordBoundary(text, e) THEN MatchEnd(re, terms, k + 1, text, e) ELSE -1
    ELSE IF terms[k].plus
    THEN GreedyEnd(re, terms, k, text, e, MaxRun(re, terms[k], text, e))
    ELSE IF e < Len(text) /\ CharMatches(re, terms[k], text[e + 1])
    THEN MatchEnd(re, terms, k + 1, text, e + 1)
    ELSE -1

\* the end of the match of the pattern at position q: the alternatives from
\* the i-th on are tried in order, the first that matches wins
RECURSIVE AlternativeEnd(_, _, _, _)
OrNextAlternative(r, re, i, text, q) ==
    IF r # -1 THEN r ELSE AlternativeEnd(re, i + 1, text, q)

AlternativeEnd(re, i, text, q) ==
    IF i > Len(re.alts) THEN -1
    ELSE OrNextAlternative(MatchEnd(re, re.alts[i], 1, text, q), re, i, text, q)

\* the characters p+1..e of S
Slice(S, p, e) == SubSeq(S, p + 1, e)

\* a mutation of Captures: the pattern has no capturing group
NoCaptures(S, q, e) == <<>>

\* the captures that split puts between two pieces: the one group of the pattern
Captures(S, q, e) == <<Slice(S, q, e)>>

\* text.split(regex): p is the end of the last match, q the position tried
RECURSIVE SplitFrom(_, _, _, _)
SplitAt(re, S, p, q, e) ==
    IF e = -1 \/ e = p THEN SplitFrom(re, S, p, q + 1)
    ELSE <<Slice(S, p, q)>> \o Captures(S, q, e) \o SplitFrom(re, S, e, e)

SplitFrom(re, S, p, q) ==
    IF q >= Len(S) THEN <<Slice(S, p, Len(S))>>
    ELSE SplitAt(re, S, p, q, AlternativeEnd(re, 1, S, q))

\* regex.test(S) of a regular expression with the g flag: the search starts
\* at lastIndex, which becomes the end of the match, or 0 without a match
RECURSIVE SearchFrom(_, _, _)
FoundOrNext(r, re, S, i) ==
    IF r # -1 THEN [found |-> TRUE, lastIndex |-> r] ELSE SearchFrom(re, S, i + 1)

SearchFrom(re, S, i) ==
    IF i > Len(S) THEN [found |-> FALSE, lastIndex |-> 0]
    ELSE FoundOrNext(AlternativeEnd(re, 1, S, i), re, S, i)

\* parts.map(part => regex.test(part) ? <mark>part</mark> : part), lastIndex
\* being the lastIndex of regex before the k-th part
RECURSIVE MarkParts(_, _, _, _)
MarkPart(re, parts, k, tested) ==
    <<[part |-> parts[k], mark |-> tested.found]>> \o MarkParts(re, parts, k + 1, tested.lastIndex)

MarkParts(re, parts, k, lastIndex) ==
    IF k > Len(parts) THEN <<>>
    ELSE MarkPart(re, parts, k, SearchFrom(re, parts[k], lastIndex))

HighlightWith(re, text) ==
    IF re.ok THEN [status |-> "returned", segments |-> MarkParts(re, SplitFrom(re, text, 0, 0), 1, 0)]
    ELSE [status |-> "threw", segments |-> <<>>]

highlightKeywords(keywords, text) ==
    IF keywords = <<>> \/ text = <<>>
    THEN [status |-> "returned", segments |-> <<[part |-> text, mark |-> FALSE]>>]
    ELSE HighlightWith(KeywordRegExp(keywords), text)

\* the names of the keywords of SpecHighlight
KeywordNames == {<<"A">>, <<"A", "A">>, <<"+">>, <<"+", "A">>, <<"A", "+">>, <<"A", "+", "A">>, <<".">>}

\* "I know Java and JavaScript", with A for Java and AB for JavaScript
JavaText == <<"B", " ", "A", " ", "A", "B">>

HighlightTexts == Texts \cup {JavaText}

SkillsNamed(names) == [i \in DOMAIN names |-> Missing(names[i])]

\* at most one hard and one soft skill, and every text
InitHighlight ==
    \E hard \in SeqsUpTo(KeywordNames, 1) : \E soft \in SeqsUpTo(KeywordNames, 1) :
        /\ report = [searchability |-> TipSection(0, 0, "fail"),
                     hardSkills    |-> [issues |-> Len(hard), skills |-> SkillsNamed(hard)],
                     softSkills    |-> [issues |-> Len(soft), skills |-> SkillsNamed(soft)],
                     recruiterTips |-> TipSection(0, 0, "warning")]
        /\ optimizedResume \in HighlightTexts
        /\ originalScore = NotCalled
        /\ optimizedScore = NotCalled
        /\ optimizedReport = "null"
        /\ NoColor
        /\ highlighted = NotHighlighted
        /\ NoApp

\* {highlightKeywords(optimizedResume)}  (line 361)
HighlightKeywordsStep ==
    /\ highlighted' = highlightKeywords(Keywords(report), optimizedResume)
    /\ UNCHANGED <<scoreVars, colorVars, appVars>>

NextHighlight == HighlightKeywordsStep

SpecHighlight == InitHighlight /\ [][NextHighlight]_vars

-----------------------------------------------------------------------------
(* App (src/App.tsx): handleScan, its two intervals, the optimizeResume    *)
(* call it awaits and the 500 ms timeout of its success, and handleNewScan. *)
(* A scan is a call of handleScan that went past its guard; scans are       *)
(* numbered in the order of their start.  An interval or a timeout is named *)
(* by the scan that set it.                                                 *)

loadingMessages == <<"Parsing resume text...", "Analyzing job description...",
                     "Identifying key skills...", "Checking for ATS compatibility...",
                     "Generating optimizations...", "Rewriting resume sections...",
                     "Finalizing your report...">>

simulationDuration == 6000
updateInterval == 50
steps == simulationDuration \div updateInterval

\* a percentage in the unit of progress; progressIncrement = 90 / steps is 90 units
Percent(n) == n * steps
progressIncrement == Percent(90) \div steps

\* the job descriptions and resumes handed to handleScan
Inputs == {<<>>, <<"x">>}

\* the AnalysisResult that the call of scan n resolves with, named by the scan
ResultOf(n) == n

\* what generateContent or JSON.parse throws inside optimizeResume
Failures == {[isError |-> TRUE, message |-> <<"Unexpected token in ", "JSON">>],
             [isError |-> TRUE, message |-> <<"API_KEY", " not valid">>],
             [isError |-> TRUE, message |-> <<"Error: ", "quota exceeded">>],
             [isError |-> FALSE, message |-> <<>>]}

Includes(message, piece) == \E i \in DOMAIN message : message[i] = piece

\* the message of the Error that optimizeResume throws (lines 313-325)
optimizeResumeError(failure) ==
    IF failure.isError
    THEN <<"An error occurred while processing your request. Details: ">>
         \o (IF Includes(failure.message, "JSON")
             THEN <<"The model returned an invalid analysis structure. Please try again.">>
             ELSE IF Includes(failure.message, "API_KEY")
             THEN <<"Invalid API Key provided.">>
             ELSE failure.message)
    ELSE <<"An unknown error occurred while processing your request.">>

\* errorMessage.replace('Error: ', ''): the first occurrence goes
RECURSIVE RemoveFirst(_, _)
RemoveFirst(message, piece) ==
    IF message = <<>> THEN <<>>
    ELSE IF Head(message) = piece THEN Tail(message)
    ELSE <<Head(message)>> \o RemoveFirst(Tail(message), piece)

\* `Analysis failed. ${errorMessage.replace('Error: ','')}`
errorText(message) == <<"Analysis failed. ">> \o RemoveFirst(message, "Error: ")

\* clearInterval(ref.current), if ref.current is set
clearInterval(intervals, ref) == intervals \ {ref}

\* the same for the text intervals, a function from the scans whose interval
\* is set to the messageIndex that the callback of the interval holds
clearTextInterval(intervals, ref) == [n \in DOMAIN intervals \ {ref} |-> intervals[n]]

\* setInterval of line 60, the messageIndex of the scan being 0 (line 40)
setTextInterval(intervals, n) == [m \in DOMAIN intervals \cup {n} |-> IF m = n THEN 0 ELSE intervals[m]]

\* !jobDescription || !resumeText
MissingInput(jobDescription, resumeText) == jobDescription = <<>> \/ resumeText = <<>>

InitApp == NoApp /\ NoScores /\ NoColor /\ highlighted = NotHighlighted

notApp == <<scoreVars, colorVars, highlighted>>

\* lines 24-68 and the call of line 71, for the scan n
StartScan(n, resumeText) ==
    /\ isModalOpen' = FALSE
    /\ isLoading' = TRUE
    /\ error' = <<>>
    /\ analysisResult' = 0
    /\ progress' = 0
    /\ originalResume' = resumeText
    /\ loadingText' = loadingMessages[1]
    /\ progressIntervals' = clearInterval(progressIntervals, progressIntervalRef) \cup {n}
    /\ progressIntervalRef' = n
    /\ textIntervals' = setTextInterval(clearTextInterval(textIntervals, textIntervalRef), n)
    /\ textIntervalRef' = n
    /\ calls' = [calls EXCEPT ![n] = "pending"]
    /\ scans' = n
    /\ succeededSinceReset' = {}
    /\ UNCHANGED timeouts

\* onScan of the modal, which is rendered while isModalOpen (lines 104-110)
handleScan(jobDescription, resumeText) ==
    /\ isModalOpen
    /\ IF MissingInput(jobDescription, resumeText)
       THEN UNCHANGED appVars
       ELSE scans < MaxScans /\ StartScan(scans + 1, resumeText)
    /\ UNCHANGED notApp

\* the callback of the progress interval of scan n (lines 49-57)
ProgressTick(n) ==
    /\ n \in progressIntervals
    /\ IF progress + progressIncrement >= Percent(90)
       THEN /\ progressIntervals' = clearInterval(progressIntervals, progressIntervalRef)
            /\ progress' = Percent(90)
       ELSE /\ progress' = progress + progressIncrement
            /\ UNCHANGED progressIntervals
    /\ UNCHANGED <<isModalOpen, analysisResult, originalResume, isLoading, loadingText, error,
                   progressIntervalRef, textIntervalRef, textIntervals, calls,
                   timeouts, scans, succeededSinceReset, notApp>>

\* the callback of the text interval of scan n (lines 61-67)
TextTick(n) ==
    /\ n \in DOMAIN textIntervals
    /\ IF textIntervals[n] + 1 < Len(loadingMessages)
       THEN /\ loadingText' = loadingMessages[textIntervals[n] + 2]
            /\ textIntervals' = [textIntervals EXCEPT ![n] = textIntervals[n] + 1]
       ELSE /\ textIntervals' = clearTextInterval([textIntervals EXCEPT ![n] = textIntervals[n] + 1],
                                                  textIntervalRef)
            /\ UNCHANGED loadingText
    /\ UNCHANGED <<isModalOpen, analysisResult, originalResume, isLoading, progress, error,
                   progressIntervalRef, textIntervalRef, progressIntervals, calls,
                   timeouts, scans, succeededSinceReset, notApp>>

\* the call of scan n resolves and handleScan goes on after its await (lines 73-82)
CallResolves(n) ==
    /\ calls[n] = "pending"
    /\ calls' = [calls EXCEPT ![n] = "resolved"]
    /\ progressIntervals' = clearInterval(progressIntervals, progressIntervalRef)
    /\ textIntervals' = clearTextInterval(textIntervals, textIntervalRef)
    /\ progress' = Percent(100)
    /\ loadingText' = "Complete!"
    /\ timeouts' = timeouts \cup {n}
    /\ succeededSinceReset' = succeededSinceReset \cup {n}
    /\ UNCHANGED <<isModalOpen, analysisResult, originalResume, isLoading, error,
                   progressIntervalRef, textIntervalRef, scans, notApp>>

\* a mutation of CompletionTimeout: the result is set and isLoading is left as it is
CompletionTimeoutStillLoading(n) ==
    /\ n \in timeouts
    /\ timeouts' = timeouts \ {n}
    /\ analysisResult' = ResultOf(n)
    /\ UNCHANGED <<isModalOpen, originalResume, isLoading, loadingText, progress, error,
                   progressIntervalRef, textIntervalRef, progressIntervals, textIntervals,
                   calls, scans, succeededSinceReset, notApp>>

\* the callback of the timeout of scan n (lines 79-82)
CompletionTimeout(n) ==
    /\ n \in timeouts
    /\ timeouts' = timeouts \ {n}
    /\ analysisResult' = ResultOf(n)
    /\ isLoading' = FALSE
    /\ UNCHANGED <<isModalOpen, originalResume, loadingText, progress, error,
                   progressIntervalRef, textIntervalRef, progressIntervals, textIntervals,
                   calls, scans, succeededSinceReset, notApp>>

\* the call of scan n rejects and handleScan goes on in its catch (lines 84-91)
CallRejects(n, failure) ==
    /\ calls[n] = "pending"
    /\ calls' = [calls EXCEPT ![n] = "rejected"]
    /\ progressIntervals' = clearInterval(progressIntervals, progressIntervalRef)
    /\ textIntervals' = clearTextInterval(textIntervals, textIntervalRef)
    /\ error' = errorText(optimizeResumeError(failure))
    /\ isLoading' = FALSE
    /\ isModalOpen' = TRUE
    /\ UNCHANGED <<analysisResult, originalResume, loadingText, progress,
                   progressIntervalRef, textIntervalRef, timeouts, scans,
                   succeededSinceReset, notApp>>

\* lines 94-99
handleNewScan ==
    /\ analysisResult' = 0
    /\ originalResume' = <<>>
    /\ error' = <<>>
    /\ isModalOpen' = TRUE
    /\ succeededSinceReset' = {}
    /\ UNCHANGED <<isLoading, loadingText, progress, progressIntervalRef, textIntervalRef,
                   progressIntervals, textIntervals, calls, timeouts, scans, notApp>>

\* onClose of the modal (line 106)
CloseModal ==
    /\ isModalOpen
    /\ isModalOpen' = FALSE
    /\ UNCHANGED <<analysisResult, originalResume, isLoading, loadingText, progress, error,
                   progressIntervalRef, textIntervalRef, progressIntervals, textIntervals,
                   calls, timeouts, scans, succeededSinceReset, notApp>>

HandleScanStep == \E jobDescription \in Inputs : \E resumeText \in Inputs : handleScan(jobDescription, resumeText)
ProgressTickStep == \E n \in 1..MaxScans : ProgressTick(n)
TextTickStep == \E n \in 1..MaxScans : TextTick(n)
CallResolvesStep == \E n \in 1..MaxScans : CallResolves(n)
CallRejectsStep == \E n \in 1..MaxScans : \E failure \in Failures : CallRejects(n, failure)
CompletionTimeoutStep == \E n \in 1..MaxScans : CompletionTimeout(n)

NextApp ==
    \/ HandleScanStep
    \/ handleNewScan
    \/ CloseModal
    \/ ProgressTickStep
    \/ TextTickStep
    \/ CallResolvesStep
    \/ CallRejectsStep
    \/ CompletionTimeoutStep

SpecApp == InitApp /\ [][NextApp]_vars

\* a timeout that has been set and is never cleared fires: the callback of
\* line 79 runs once its 500 ms have passed
TimeoutsFire == \A n \in 1..MaxScans : WF_vars(CompletionTimeout(n))

SpecAppFair == SpecApp /\ TimeoutsFire

-----------------------------------------------------------------------------
(* Properties of the scoring engine *)

Sections == {"searchability", "hardSkills", "softSkills", "recruiterTips"}

Entries(r, k) == IF k \in {"searchability", "recruiterTips"} THEN r[k].tips ELSE r[k].skills
Credited(r, k) ==
    IF k \in {"searchability", "recruiterTips"}
    THEN Cardinality({i \in DOMAIN r[k].tips : r[k].tips[i].status \in {"pass", "info"}})
    ELSE Cardinality({i \in DOMAIN r[k].skills : r[k].skills[i].resumeCount # -1})
Total(r, k) == Len(Entries(r, k))

\* C1: calculateOptimizedScore never changes the report it is given: no step
\* of any sequence of calls of calculateScore and calculateOptimizedScore
\* changes any field of the report.
C1_ReportUnchanged == [][report' = report]_vars

\* a call of calculateOptimizedScore has returned whose working copy differs
\* from the report, and calculateScore has been called as well
C1_Witness == /\ optimizedScore.status = "returned"
              /\ originalScore.status = "returned"
              /\ optimizedReport.hardSkills # report.hardSkills
              /\ optimizedReport.recruiterTips # report.recruiterTips

\* 100 * (0.30 rS + 0.45 rH + 0.10 rSoft + 0.15 rR) rounded half up, in exact
\* arithmetic: the sum is num / den with den the product of the section sizes
Den(r, k) == IF Total(r, k) = 0 THEN 1 ELSE Total(r, k)
Num(r, k) == IF Total(r, k) = 0 THEN 1 ELSE Credited(r, k)
ExactDen(r) == Den(r, "searchability") * Den(r, "hardSkills") * Den(r, "softSkills") * Den(r, "recruiterTips")
ExactNum(r) ==
      WeightHundredths.searchability * Num(r, "searchability") * (ExactDen(r) \div Den(r, "searchability"))
    + WeightHundredths.hardSkills * Num(r, "hardSkills") * (ExactDen(r) \div Den(r, "hardSkills"))
    + WeightHundredths.softSkills * Num(r, "softSkills") * (ExactDen(r) \div Den(r, "softSkills"))
    + WeightHundredths.recruiterTips * Num(r, "recruiterTips") * (ExactDen(r) \div Den(r, "recruiterTips"))
RoundHalfUpExact(r) == (2 * ExactNum(r) + ExactDen(r)) \div (2 * ExactDen(r))

\* C2: calculateScore returns the round-half-up of
\* 100 * (0.30 rS + 0.45 rH + 0.10 rSoft + 0.15 rR), the ratio of a section
\* being credited entries / entries, and 1 for an empty section.
C2_RoundHalfUpOfWeightedSum ==
    originalScore.status = "returned" => originalScore.value = RoundHalfUpExact(report)

\* hardSkills has exactly two entries, one missing and one found, and the
\* other three sections are empty
C3_Report(r) == /\ Total(r, "hardSkills") = 2
                /\ Credited(r, "hardSkills") = 1
                /\ Total(r, "searchability") = 0
                /\ Total(r, "softSkills") = 0
                /\ Total(r, "recruiterTips") = 0

\* C3 (as claimed): for a report whose hardSkills has one missing and one
\* found skill and whose other sections are empty, calculateScore returns 98.
C3_Returns98 ==
    (originalScore.status = "returned" /\ C3_Report(report)) => originalScore.value = 98

\* C3 (amended): for such a report calculateScore returns 78.
C3_Returns78 ==
    (originalScore.status = "returned" /\ C3_Report(report)) => originalScore.value = 78

C3_Witness == originalScore.status = "returned" /\ C3_Report(report)

\* C4: calculateScore and calculateOptimizedScore return an integer between
\* 0 and 100, for every report and every text (and neither throws).
C4_ScoresInRange ==
    /\ originalScore.status = "returned" => originalScore.value \in 0..100
    /\ optimizedScore.status # "none" =>
           optimizedScore.status = "returned" /\ optimizedScore.value \in 0..100

\* both have returned, the first the least score and the second a greater one
C4_Witness == /\ originalScore.status = "returned"
              /\ optimizedScore.status = "returned"
              /\ originalScore.value = 0
              /\ optimizedScore.value > 0

\* all four sections are non-empty and every entry earns credit
C5_Report(r) == \A k \in Sections : Total(r, k) > 0 /\ Credited(r, k) = Total(r, k)

\* C5: a report whose four sections are non-empty, with every tip 'pass' or
\* 'info' and every skill found, scores exactly 100.
C5_FullReportScores100 ==
    (originalScore.status = "returned" /\ C5_Report(report)) => originalScore.value = 100

\* such a report, with an 'info' tip in it, has been scored
C5_Witness == /\ originalScore.status = "returned"
              /\ C5_Report(report)
              /\ \E i \in DOMAIN report.searchability.tips : report.searchability.tips[i].status = "info"

\* all four sections are non-empty; every searchability tip is 'fail', every
\* recruiter tip 'warning' and every skill missing
C6_Report(r) ==
    /\ \A k \in Sections : Total(r, k) > 0
    /\ \A i \in DOMAIN r.searchability.tips : r.searchability.tips[i].status = "fail"
    /\ \A i \in DOMAIN r.recruiterTips.tips : r.recruiterTips.tips[i].status = "warning"
    /\ \A i \in DOMAIN r.hardSkills.skills : r.hardSkills.skills[i].resumeCount = -1
    /\ \A i \in DOMAIN r.softSkills.skills : r.softSkills.skills[i].resumeCount = -1

\* C6: a report whose four sections are non-empty and fully failing scores
\* exactly 0, and the four weights sum to exactly 1: 100 in hundredths, and
\* the double 1 when the four doubles are added in the order of the code.
C6_FailingReportScores0 ==
    /\ (originalScore.status = "returned" /\ C6_Report(report)) => originalScore.value = 0
    /\ WeightHundredths.searchability + WeightHundredths.hardSkills
         + WeightHundredths.softSkills + WeightHundredths.recruiterTips = 100
    /\ FAdd(FAdd(FAdd(WEIGHTS("searchability"), WEIGHTS("hardSkills")), WEIGHTS("softSkills")),
            WEIGHTS("recruiterTips")) = FromInt(1)

C6_Witness == originalScore.status = "returned" /\ C6_Report(report)

\* the report with a credited entry put into each empty section
FilledTips(tips) == IF tips = <<>> THEN TipList(1, 1, "fail") ELSE tips
FilledSkills(skills) == IF skills = <<>> THEN SkillList(1, 1) ELSE skills
Filled(r) == [r EXCEPT !.searchability.tips = FilledTips(@),
                       !.hardSkills.skills = FilledSkills(@),
                       !.softSkills.skills = FilledSkills(@),
                       !.recruiterTips.tips = FilledTips(@)]

\* C7: an empty section contributes its full weight, whatever the other
\* sections hold: the score is the score of the report with a fully credited
\* section in the place of each empty one; and the report of four empty
\* sections scores exactly 100.
C7_EmptySectionFullCredit ==
    (originalScore.status = "returned" /\ \E k \in Sections : Total(report, k) = 0) =>
        /\ originalScore.value = calculateScore(Filled(report))
        /\ (\A k \in Sections : Total(report, k) = 0) => originalScore.value = 100

\* a report with an empty section next to a section without any credit has been
\* scored, and so has the report of four empty sections
C7_Witness == /\ originalScore.status = "returned"
              /\ Total(report, "searchability") = 0
              /\ Total(report, "hardSkills") > 0
              /\ Credited(report, "hardSkills") = 0
              /\ originalScore.value > 0

C7_WitnessAllEmpty == originalScore.status = "returned" /\ \A k \in Sections : Total(report, k) = 0

-----------------------------------------------------------------------------
(* Properties of the skill matching of calculateOptimizedScore *)

Letters == {"A", "a", "B", "b"}
FoldCase(c) == IF c = "A" THEN "a" ELSE IF c = "B" THEN "b" ELSE c

\* the positions of text at which the characters of name occur, in any casing
Occurrences(name, text) ==
    {i \in 1..(Len(text) - Len(name) + 1) :
        \A j \in 1..Len(name) : FoldCase(name[j]) = FoldCase(text[i + j - 1])}

IsLetterAt(text, i) == i >= 1 /\ i <= Len(text) /\ text[i] \in Letters

\* the occurrence at i is a whole word: no letter touches it on either side
WholeWordAt(name, text, i) == ~IsLetterAt(text, i - 1) /\ ~IsLetterAt(text, i + Len(name))

\* the occurrence at i is a proper part of a longer word: the word its first
\* or its last character belongs to goes on beyond the occurrence
InsideLongerWordAt(name, text, i) ==
    \/ name[1] \in Letters /\ IsLetterAt(text, i - 1)
    \/ name[Len(name)] \in Letters /\ IsLetterAt(text, i + Len(name))

\* the skills of a report: section and index
SkillSlots(r) == {<<k, i>> \in {"hardSkills", "softSkills"} \X (1..MaxItems) : i <= Len(r[k].skills)}
SkillAt(r, slot) == r[slot[1]].skills[slot[2]]
MissingSlots(r) == {slot \in SkillSlots(r) : SkillAt(r, slot).resumeCount = -1}

\* hardSkills is a missing skill and a present one, the other sections are empty
C8_ExampleReport(r) ==
    /\ Len(r.hardSkills.skills) = 2
    /\ r.hardSkills.skills[1].resumeCount = -1
    /\ r.hardSkills.skills[2].resumeCount # -1
    /\ r.searchability.tips = <<>> /\ r.softSkills.skills = <<>> /\ r.recruiterTips.tips = <<>>

\* C8: every missing hard or soft skill whose name occurs as a whole word in
\* the optimized resume, in any casing, is found (resumeCount 1 in the working
\* copy); for hardSkills [missing, present] and the other sections empty, a
\* text that holds the missing name as a word gives the optimized score 100.
C8_WholeWordSkillFound ==
    optimizedScore.status = "returned" =>
        \A slot \in MissingSlots(report) :
            (\E i \in Occurrences(SkillAt(report, slot).skill, optimizedResume) :
                 WholeWordAt(SkillAt(report, slot).skill, optimizedResume, i))
            => /\ SkillAt(optimizedReport, slot).resumeCount = 1
               /\ C8_ExampleReport(report) => optimizedScore.value = 100

\* C9: a missing skill whose name appears in the optimized resume only as a
\* proper part of a longer word stays missing in the working copy.
C9_PartOfWordNotFound ==
    optimizedScore.status = "returned" =>
        \A slot \in MissingSlots(report) :
            (/\ Occurrences(SkillAt(report, slot).skill, optimizedResume) # {}
             /\ \A i \in Occurrences(SkillAt(report, slot).skill, optimizedResume) :
                    InsideLongerWordAt(SkillAt(report, slot).skill, optimizedResume, i))
            => SkillAt(optimizedReport, slot).resumeCount = -1

\* the call has returned for a text in which the missing name occurs, every
\* time inside a longer word
C9_Witness ==
    /\ optimizedScore.status = "returned"
    /\ \E slot \in MissingSlots(report) :
           /\ Occurrences(SkillAt(report, slot).skill, optimizedResume) # {}
           /\ \A i \in Occurrences(SkillAt(report, slot).skill, optimizedResume) :
                  InsideLongerWordAt(SkillAt(report, slot).skill, optimizedResume, i)

HasSpecial(name) == \E j \in DOMAIN name : name[j] \in {".", "+"}

\* C10: a skill name with pattern characters is matched literally: building
\* the matcher never throws, and a missing skill is found only if the
\* characters of its name occur in the text.
C10_LiteralMatch ==
    /\ optimizedScore.status # "threw"
    /\ optimizedScore.status = "returned" =>
           \A slot \in MissingSlots(report) :
               SkillAt(optimizedReport, slot).resumeCount # -1
               => Occurrences(SkillAt(report, slot).skill, optimizedResume) # {}

\* a missing skill whose name holds a pattern character has been found
C10_Witness ==
    /\ optimizedScore.status = "returned"
    /\ \E slot \in MissingSlots(report) :
           /\ HasSpecial(SkillAt(report, slot).skill)
           /\ SkillAt(optimizedReport, slot).resumeCount = 1

\* the call has returned without finding a name of pattern characters that,
\* read as a pattern, matches the text: "." in "a"
C10_WitnessNotFound ==
    /\ optimizedScore.status = "returned"
    /\ optimizedResume = <<"a">>
    /\ \E slot \in MissingSlots(report) :
           /\ SkillAt(report, slot).skill = <<".">>
           /\ SkillAt(optimizedReport, slot).resumeCount = -1

-----------------------------------------------------------------------------
(* Properties of the tips in calculateOptimizedScore *)

\* the report without its searchability and recruiter tips
WithoutTips(r) == [r EXCEPT !.searchability.tips = <<>>, !.recruiterTips.tips = <<>>]

TipStatuses(r) ==
    {r.searchability.tips[i].status : i \in DOMAIN r.searchability.tips}
    \cup {r.recruiterTips.tips[i].status : i \in DOMAIN r.recruiterTips.tips}

\* C11: calculateOptimizedScore makes every tip of the working copy 'pass',
\* so the optimized score is that of the same skills and text with no tips
\* at all (two reports that differ only in their tips get the same optimized
\* score), and the optimized score is never below 45.
C11_TipsDoNotCount ==
    optimizedScore.status = "returned" =>
        /\ TipStatuses(optimizedReport) \subseteq {"pass"}
        /\ optimizedScore.value = calculateOptimizedScore(WithoutTips(report), optimizedResume).value
        /\ optimizedScore.value >= 45

\* the call has returned 45 for a report with a failing searchability tip, a
\* recruiter warning and no skill found
C11_Witness ==
    /\ optimizedScore.status = "returned"
    /\ optimizedScore.value = 45
    /\ {"fail", "warning"} \subseteq TipStatuses(report)

-----------------------------------------------------------------------------
(* Properties of getScoreColor *)

\* C12: a score of 90 or more is green, a score from 75 to 89 is yellow and
\* a score below 75 is red; 90 is green, 89 and 75 are yellow, 74 is red.
C12_ColorThresholds ==
    color # "none" =>
        /\ score \in 90..100 <=> color = "green"
        /\ score \in 75..89 <=> color = "yellow"
        /\ score \in 0..74 <=> color = "red"
        /\ score = 90 => color = "green"
        /\ score \in {89, 75} => color = "yellow"
        /\ score = 74 => color = "red"

\* the colour of the score 75 has been computed
C12_Witness == score = 75 /\ color = "yellow"

-----------------------------------------------------------------------------
(* Properties of highlightKeywords *)

RECURSIVE ConcatParts(_)
ConcatParts(segs) == IF segs = <<>> THEN <<>> ELSE Head(segs).part \o ConcatParts(Tail(segs))

\* C13: the parts of the segments of highlightKeywords, concatenated in
\* order, are the input text, character by character in its own casing, for
\* every text and every keyword list; the call never throws.
C13_SegmentsConcatToText ==
    /\ highlighted.status # "threw"
    /\ highlighted.status = "returned" => ConcatParts(highlighted.segments) = optimizedResume

\* a lower-case occurrence of a keyword has been split off the text
C13_Witness ==
    /\ highlighted.status = "returned"
    /\ Len(highlighted.segments) >= 3
    /\ \E i \in DOMAIN highlighted.segments :
           /\ highlighted.segments[i].mark
           /\ "a" \in {highlighted.segments[i].part[j] : j \in DOMAIN highlighted.segments[i].part}

\* the number of characters of the first i segments
RECURSIVE SegmentEnd(_, _)
SegmentEnd(segs, i) == IF i = 0 THEN 0 ELSE SegmentEnd(segs, i - 1) + Len(segs[i].part)

SameFolded(a, b) == Len(a) = Len(b) /\ \A j \in DOMAIN a : FoldCase(a[j]) = FoldCase(b[j])

\* C14: highlightKeywords neither splits nor highlights a word that merely
\* contains a keyword: no segment begins or ends between two letters of the
\* text, and a highlighted segment is a keyword, in any casing, not a longer
\* word; for "I know Java and JavaScript" with the keyword Java (B A AB with
\* the keyword A) the segments are "B ", the highlighted "A", and " AB".
C14_WordsAreNotSplit ==
    highlighted.status = "returned" =>
        /\ \A i \in 1..(Len(highlighted.segments) - 1) :
               ~(/\ IsLetterAt(optimizedResume, SegmentEnd(highlighted.segments, i))
                 /\ IsLetterAt(optimizedResume, SegmentEnd(highlighted.segments, i) + 1))
        /\ \A i \in DOMAIN highlighted.segments :
               highlighted.segments[i].mark
               => \E k \in DOMAIN Keywords(report) :
                      SameFolded(highlighted.segments[i].part, Keywords(report)[k])
        /\ (optimizedResume = JavaText /\ Keywords(report) = << <<"A">> >>)
           => highlighted.segments = << [part |-> <<"B", " ">>, mark |-> FALSE],
                                        [part |-> <<"A">>, mark |-> TRUE],
                                        [part |-> <<" ", "A", "B">>, mark |-> FALSE] >>

\* the example has been highlighted
C14_Witness ==
    /\ highlighted.status = "returned"
    /\ optimizedResume = JavaText
    /\ Keywords(report) = << <<"A">> >>

\* between the characters e and e + 1 of text a word begins or ends
IsWordEdge(text, e) == IsLetterAt(text, e) # IsLetterAt(text, e + 1)

\* the characters q+1..e of text are an occurrence of a keyword between two
\* word edges: a stretch that the alternation of the keywords matches
MatchedStretch(keywords, text, q, e) ==
    /\ q < e
    /\ IsWordEdge(text, q) /\ IsWordEdge(text, e)
    /\ \E k \in DOMAIN keywords : SameFolded(Slice(text, q, e), keywords[k])

\* C15: a segment of highlightKeywords is highlighted if and only if it is a
\* stretch of the text that the alternation of the keywords matched, also
\* for keywords that begin or end with a non-word character.
C15_HighlightedIffMatched ==
    highlighted.status = "returned" =>
        \A i \in DOMAIN highlighted.segments :
            highlighted.segments[i].mark
            <=> MatchedStretch(Keywords(report), optimizedResume,
                               SegmentEnd(highlighted.segments, i - 1),
                               SegmentEnd(highlighted.segments, i))

\* the keyword matches at position q of the text, between two word edges
KeywordAt(kw, text, q) ==
    /\ q + Len(kw) <= Len(text)
    /\ MatchedStretch(<<kw>>, text, q, q + Len(kw))

\* C16: when several keywords match at the position where a highlighted
\* segment begins, the segment is the longest of them, whatever the order of
\* the keywords in the list.
C16_LongestKeywordWins ==
    highlighted.status = "returned" =>
        \A i \in DOMAIN highlighted.segments :
            highlighted.segments[i].mark
            => \A k \in DOMAIN Keywords(report) :
                   KeywordAt(Keywords(report)[k], optimizedResume, SegmentEnd(highlighted.segments, i - 1))
                   => Len(Keywords(report)[k]) <= Len(highlighted.segments[i].part)

-----------------------------------------------------------------------------
(* Properties of App *)

\* the call of scan n fails in this step
Fails(n) == calls[n] = "pending" /\ calls'[n] = "rejected"

\* C17: when the optimizeResume call of a scan fails, error is a message that
\* begins with "Analysis failed.", isLoading is false, the modal is open,
\* neither the progress nor the text interval is left running, and
\* analysisResult is null.
C17_FailureSurfaced ==
    [][\A n \in 1..MaxScans :
          Fails(n) => /\ error' # <<>>
                      /\ Head(error') = "Analysis failed. "
                      /\ ~isLoading'
                      /\ isModalOpen'
                      /\ progressIntervals' = {}
                      /\ DOMAIN textIntervals' = {}
                      /\ analysisResult' = 0]_vars

\* a step that starts a new scan: handleNewScan, or handleScan with a job
\* description and a resume
StartsNewScan ==
    \/ handleNewScan
    \/ \E jobDescription \in Inputs \ {<<>>} : \E resumeText \in Inputs \ {<<>>} :
           handleScan(jobDescription, resumeText)

\* handleScan without a job description or without a resume
ScansNothing ==
    \E jobDescription \in Inputs : \E resumeText \in Inputs :
        /\ jobDescription = <<>> \/ resumeText = <<>>
        /\ handleScan(jobDescription, resumeText)

\* C18: after handleNewScan, and after handleScan with a job description and
\* a resume, analysisResult is null, and from then on it stays null until a
\* call of the collaborator succeeds (it becomes the result of a call that
\* has succeeded since); handleScan without a job description or without a
\* resume changes nothing of App.
C18_NewScanDiscardsResult ==
    [][/\ StartsNewScan => analysisResult' = 0
       /\ (analysisResult = 0 /\ analysisResult' # 0) => analysisResult' \in succeededSinceReset
       /\ ScansNothing => UNCHANGED appVars]_vars

-----------------------------------------------------------------------------
(* More properties of calculateOptimizedScore *)

\* the character i of text is a space, or i lies outside the text
IsDelimiterAt(text, i) == i < 1 \/ i > Len(text) \/ text[i] = " "

\* the occurrence at i is a token of its own, between spaces or the ends of the text
StandaloneAt(name, text, i) == IsDelimiterAt(text, i - 1) /\ IsDelimiterAt(text, i + Len(name))

NonWordEdged(name) == name[1] \notin Letters \/ name[Len(name)] \notin Letters

\* C19: a missing skill whose name begins or ends with a non-word character
\* and occurs in the optimized resume as a token of its own, between spaces
\* or the ends of the text, is found (resumeCount 1 in the working copy), and
\* the optimized score is higher than it is for a text without the skill.
C19_NonWordEdgedSkillFound ==
    optimizedScore.status = "returned" =>
        \A slot \in MissingSlots(report) :
            (/\ NonWordEdged(SkillAt(report, slot).skill)
             /\ \E i \in Occurrences(SkillAt(report, slot).skill, optimizedResume) :
                    StandaloneAt(SkillAt(report, slot).skill, optimizedResume, i))
            => /\ SkillAt(optimizedReport, slot).resumeCount = 1
               /\ optimizedScore.value > calculateOptimizedScore(report, <<>>).value

\* C20: the optimized score of a report is never below its score, whatever
\* the optimized resume: the skills that are present keep their resumeCount
\* in the working copy, and no tip of it is left failing.
C20_OptimizedNotBelowOriginal ==
    /\ (originalScore.status = "returned" /\ optimizedScore.status = "returned")
       => optimizedScore.value >= originalScore.value
    /\ optimizedScore.status = "returned"
       => /\ \A slot \in SkillSlots(report) \ MissingSlots(report) :
                 SkillAt(optimizedReport, slot) = SkillAt(report, slot)
          /\ TipStatuses(optimizedReport) \cap {"fail", "warning"} = {}

\* both scores have been computed for a report with a present skill and a
\* missing one, and the optimized score is the higher one
C20_Witness ==
    /\ originalScore.status = "returned"
    /\ optimizedScore.status = "returned"
    /\ optimizedScore.value > originalScore.value
    /\ MissingSlots(report) # {}
    /\ SkillSlots(report) \ MissingSlots(report) # {}

-----------------------------------------------------------------------------
(* Properties of the scans of App over time *)

\* the call of scan n settles in this step
Settles(n) == calls[n] = "pending" /\ calls'[n] # "pending"

\* the completion timeout of scan n fires in this step
Completes(n) == n \in timeouts /\ n \notin timeouts'

\* the request of a scan started after scan n is still pending
LaterPending(n) == \E m \in (n + 1)..MaxScans : calls[m] = "pending"

\* C21: the response of an earlier scan, and its delayed completion, leave
\* the state of a later scan alone: while the request of a later scan is
\* pending, such a step neither sets analysisResult, nor clears isLoading,
\* nor stops an interval.
C21_EarlierScanLeavesLaterAlone ==
    [][\A n \in 1..MaxScans :
          ((Settles(n) \/ Completes(n)) /\ LaterPending(n))
          => /\ analysisResult' = analysisResult
             /\ isLoading' = isLoading
             /\ progressIntervals' = progressIntervals
             /\ DOMAIN textIntervals' = DOMAIN textIntervals]_vars

\* the call of scan n resolves in this step
Succeeds(n) == calls[n] = "pending" /\ calls'[n] = "resolved"

\* isLoading is false, and there is a result or an error
Finished == ~isLoading /\ (analysisResult # 0 \/ error # <<>>)

\* C22: when the call of a scan resolves, progress becomes 100 and the
\* loading text "Complete!" while analysisResult and isLoading stay as they
\* are; analysisResult is set only by the completion timeout, to the result
\* of its scan and together with isLoading becoming false; and every scan
\* whose call has settled gets to isLoading false with a result or an error:
\* at once when the call fails, and when its timeout fires if it succeeds,
\* and no timeout stays pending for ever.
C22_CompletionInTwoSteps ==
    /\ [][/\ \A n \in 1..MaxScans :
                /\ Succeeds(n) => /\ progress' = Percent(100)
                                  /\ loadingText' = "Complete!"
                                  /\ analysisResult' = analysisResult
                                  /\ isLoading' = isLoading
                                  /\ n \in timeouts'
                /\ Completes(n) => /\ calls[n] = "resolved"
                                   /\ analysisResult' = ResultOf(n)
                                   /\ ~isLoading'
                                   /\ Finished'
                /\ Fails(n) => Finished'
          /\ (analysisResult' # analysisResult /\ analysisResult' # 0)
             => \E n \in 1..MaxScans : Completes(n)]_vars
    /\ \A n \in 1..MaxScans : []<>(n \notin timeouts)

\* a scan has gone both steps: its call has resolved, its timeout has fired,
\* its result is shown at progress 100 and nothing is loading
C22_Witness ==
    \E n \in 1..MaxScans :
        /\ calls[n] = "resolved"
        /\ n \notin timeouts
        /\ analysisResult = ResultOf(n)
        /\ ~isLoading
        /\ progress = Percent(100)
        /\ loadingText = "Complete!"

\* the call of the scan started last is pending before and after this step,
\* which starts no scan
ScanGoesOn == /\ scans > 0
              /\ scans' = scans
              /\ calls[scans] = "pending"
              /\ calls'[scans] = "pending"

\* C23: while the call of a scan is pending, from the reset of progress to 0
\* by handleScan on, progress never decreases and never exceeds 90; it comes
\* to 100 only in the step in which the call of the scan resolves; and at 90
\* the progress interval is stopped, so that no tick changes progress again.
C23_ProgressWithinScan ==
    [][/\ ScanGoesOn => /\ progress' >= progress
                        /\ progress' <= Percent(90)
                        /\ progress = Percent(90) => progressIntervals = {}
       /\ (scans > 0 /\ progress' = Percent(100) /\ progress # Percent(100))
          => Succeeds(scans)]_vars

====
